---------------------------- MODULE Spec2Model ----------------------------
(***************************************************************************)
(* AquaPLAN/ALAN: critical depth (z_thresh) of artificial light at night   *)
(* under the sea.  Model of alan_tools/alan_tile.py (fill_and_regrid,      *)
(* class ALANTile), alan_tools/file_attributes.py and the batch driver     *)
(* GetAlanTiles.py.                                                        *)
(*                                                                         *)
(* Three specifications share the definitions:                             *)
(*   Spec          one ALANTile: the constructor's stages in order, then   *)
(*                 save_z_thresh_to_nc;                                    *)
(*   AssemblerSpec make_z_thresh_dataset as a function of self.z_thresh    *)
(*                 and self.month, and the decoding of what it persists;   *)
(*   DriverSpec    the loop of GetAlanTiles.py over regions x months.      *)
(***************************************************************************)
EXTENDS Integers, Sequences, FiniteSets, TLC

(***************************************************************************)
(* IEEE-754 doubles, as numpy computes with them.  A value is NaN, +/-inf  *)
(* or an exact real of one of these forms (n, d, bn, bd integers):         *)
(*   "q"      the rational n/d (d > 0, lowest terms);                      *)
(*   "ln"     ln(n/d)          with n/d > 0, n/d # 1;                      *)
(*   "invln"  1 / ln(n/d)      with n/d > 0, n/d # 1;                      *)
(*   "logr"   ln(bn/bd) / ln(n/d), both arguments > 0 and # 1.             *)
(* The forms are closed under the operations the pipeline applies to the   *)
(* inputs drawn below, and distinct records denote distinct reals except   *)
(* within "logr" (which is only ever compared with itself, NaN and the     *)
(* infinities).  Rounding and signed zeros are not modelled.               *)
(***************************************************************************)
RECURSIVE GCD(_, _)
GCD(a, b) ==
    IF b = 0 THEN a ELSE GCD(b, a % b)

Abs(x) ==
    IF x < 0 THEN -x ELSE x

Mk(kind, n, d, bn, bd) ==
    [k |-> kind, n |-> n, d |-> d, bn |-> bn, bd |-> bd]

NaN ==
    Mk("nan", 0, 1, 0, 1)

PInf ==
    Mk("inf", 1, 1, 0, 1)

NInf ==
    Mk("inf", -1, 1, 0, 1)

\* The rational n/d in lowest terms with a positive denominator (d # 0).
Q(n, d) ==
    LET g == GCD(Abs(n), Abs(d))
        s == IF d < 0 THEN -1 ELSE 1
    IN  Mk("q", (s * n) \div g, (s * d) \div g, 0, 1)

\* ln(n/d) for n/d > 0; ln(1) is the rational 0.
Ln(n, d) ==
    LET r == Q(n, d)
    IN  IF r.n = r.d THEN Q(0, 1) ELSE Mk("ln", r.n, r.d, 0, 1)

\* np.isnan
IsNaN(x) ==
    x.k = "nan"

IsFinite(x) ==
    x.k \notin {"nan", "inf"}

\* The sign of a value that is not NaN: -1, 0 or 1.
Sgn(x) ==
    CASE x.k = "inf"   -> x.n
      [] x.k = "q"     -> IF x.n > 0 THEN 1 ELSE IF x.n < 0 THEN -1 ELSE 0
      [] x.k = "ln"    -> IF x.n > x.d THEN 1 ELSE -1
      [] x.k = "invln" -> IF x.n > x.d THEN 1 ELSE -1
      [] x.k = "logr"  -> (IF x.bn > x.bd THEN 1 ELSE -1)
                          * (IF x.n > x.d THEN 1 ELSE -1)

Inf(sign) ==
    IF sign > 0 THEN PInf ELSE NInf

\* a * b
FMul(a, b) ==
    CASE IsNaN(a) \/ IsNaN(b) -> NaN
      [] ~IsNaN(a) /\ ~IsNaN(b) /\ (a.k = "inf" \/ b.k = "inf") ->
            IF Sgn(a) = 0 \/ Sgn(b) = 0 THEN NaN ELSE Inf(Sgn(a) * Sgn(b))
      [] a.k = "q" /\ b.k = "q" -> Q(a.n * b.n, a.d * b.d)
      [] a.k = "q" /\ b.k # "q" /\ IsFinite(b) /\ a.n = 0 -> Q(0, 1)
      [] a.k # "q" /\ b.k = "q" /\ IsFinite(a) /\ b.n = 0 -> Q(0, 1)
      [] a.k = "q" /\ a.n = a.d /\ b.k \in {"ln", "invln", "logr"} -> b
      [] b.k = "q" /\ b.n = b.d /\ a.k \in {"ln", "invln", "logr"} -> a
      [] a.k = "q" /\ a.n = -a.d /\ b.k = "ln" -> Mk("ln", b.d, b.n, 0, 1)
      [] b.k = "q" /\ b.n = -b.d /\ a.k = "ln" -> Mk("ln", a.d, a.n, 0, 1)
      [] a.k = "invln" /\ b.k = "ln" -> Mk("logr", a.n, a.d, b.n, b.d)
      [] a.k = "ln" /\ b.k = "invln" -> Mk("logr", b.n, b.d, a.n, a.d)

\* a + b
FAdd(a, b) ==
    CASE IsNaN(a) \/ IsNaN(b) -> NaN
      [] a.k = "inf" /\ b.k = "inf" -> IF a.n = b.n THEN a ELSE NaN
      [] a.k = "inf" /\ b.k \notin {"inf", "nan"} -> a
      [] b.k = "inf" /\ a.k \notin {"inf", "nan"} -> b
      [] a.k = "q" /\ b.k = "q" -> Q(a.n * b.d + b.n * a.d, a.d * b.d)

\* a / b, numpy's true division of doubles: x/0 is +/-inf, 0/0 is NaN, and
\* neither raises (a RuntimeWarning is not an exception).
FDiv(a, b) ==
    CASE IsNaN(a) \/ IsNaN(b) -> NaN
      [] a.k = "inf" /\ b.k = "inf" -> NaN
      [] a.k = "inf" /\ b.k \notin {"inf", "nan"} ->
            Inf(a.n * (IF Sgn(b) < 0 THEN -1 ELSE 1))
      [] b.k = "inf" /\ a.k \notin {"inf", "nan"} -> Q(0, 1)
      [] a.k = "q" /\ b.k = "q" /\ b.n = 0 ->
            IF a.n = 0 THEN NaN ELSE Inf(Sgn(a))
      [] a.k = "q" /\ b.k = "q" /\ b.n # 0 -> Q(a.n * b.d, a.d * b.n)
      [] a.k = "q" /\ b.k = "ln" /\ a.n = 0 -> Q(0, 1)
      [] a.k = "q" /\ b.k = "ln" /\ a.n = a.d -> Mk("invln", b.n, b.d, 0, 1)
      [] a.k = "q" /\ b.k = "ln" /\ a.n = -a.d -> Mk("invln", b.d, b.n, 0, 1)

\* np.exp on the values an attenuation raster holds.
FExp(x) ==
    CASE IsNaN(x) -> NaN
      [] x.k = "inf" -> IF x.n > 0 THEN PInf ELSE Q(0, 1)
      [] x.k = "q" /\ x.n = 0 -> Q(1, 1)
      [] x.k = "ln" -> Q(x.n, x.d)

\* np.log: NaN for a negative argument, -inf at 0, neither raising.
FLog(x) ==
    CASE IsNaN(x) -> NaN
      [] x.k = "inf" -> IF x.n > 0 THEN PInf ELSE NaN
      [] x.k = "q" /\ x.n < 0 -> NaN
      [] x.k = "q" /\ x.n = 0 -> NInf
      [] x.k = "q" /\ x.n > 0 -> Ln(x.n, x.d)

\* a > b and a <= b for b rational; every comparison with NaN is False.
FGt(a, b) ==
    CASE IsNaN(a) \/ IsNaN(b) -> FALSE
      [] a.k = "q" /\ b.k = "q" -> a.n * b.d > b.n * a.d
      [] ~IsNaN(a) /\ a.k # "q" /\ b.k = "q" /\ b.n = 0 -> Sgn(a) > 0
      [] a.k = "inf" /\ b.k = "q" /\ b.n # 0 -> a.n > 0

FLe(a, b) ==
    IF IsNaN(a) \/ IsNaN(b) THEN FALSE ELSE ~FGt(a, b)

\* np.where(cond, x, y) at one cell.
Where(cond, x, y) ==
    IF cond THEN x ELSE y

(***************************************************************************)
(* Rasters.  A raster is [lat, lon, data]: two coordinate sequences and    *)
(* data[i][j] at (lat[i], lon[j]), dims (lat, lon) as xarray holds them.   *)
(* Coordinates are integers in half degrees, so that the one-degree buffer *)
(* of the loaders is two grid steps.                                       *)
(***************************************************************************)
HalfDeg(deg) ==
    2 * deg

Raster(lat, lon, data) ==
    [lat |-> lat, lon |-> lon, data |-> data]

Shape(m) ==
    <<Len(m), IF Len(m) = 0 THEN 0 ELSE Len(m[1])>>

\* numpy .T of a 2-D array with at least one row.
Transpose(m) ==
    [j \in 1..Len(m[1]) |-> [i \in 1..Len(m) |-> m[i][j]]]

\* numpy .ravel(): the rows one after another (C order).
Ravel(m) ==
    LET cols == Len(m[1])
    IN  [p \in 1..(Len(m) * cols) |->
            m[((p - 1) \div cols) + 1][((p - 1) % cols) + 1]]

\* numpy .reshape((rows, cols)) of a flat array.
Reshape(flat, rows, cols) ==
    [i \in 1..rows |-> [j \in 1..cols |-> flat[(i - 1) * cols + j]]]

\* np.meshgrid(x, y, indexing='ij'): two arrays of shape (len x, len y).
MeshgridIJ(x, y) ==
    [mx |-> [a \in 1..Len(x) |-> [b \in 1..Len(y) |-> x[a]]],
     my |-> [a \in 1..Len(x) |-> [b \in 1..Len(y) |-> y[b]]]]

\* The indices of s, in order, whose element lies in lo..hi.
IdxIn(s, lo, hi) ==
    SelectSeq([i \in 1..Len(s) |-> i], LAMBDA i : s[i] >= lo /\ s[i] <= hi)

\* xarray .sel(lat=slice(latHi, latLo), lon=slice(lonLo, lonHi)) on a raster
\* stored north to south and west to east: label-based, both ends included.
Sel(r, latHi, latLo, lonLo, lonHi) ==
    LET li == IdxIn(r.lat, latLo, latHi)
        lj == IdxIn(r.lon, lonLo, lonHi)
    IN  Raster([a \in 1..Len(li) |-> r.lat[li[a]]],
               [b \in 1..Len(lj) |-> r.lon[lj[b]]],
               [a \in 1..Len(li) |-> [b \in 1..Len(lj) |-> r.data[li[a]][lj[b]]]])

\* An elementwise map over one grid, and over two grids of the same shape.
Map1(F(_), m) ==
    [i \in 1..Len(m) |-> [j \in 1..Len(m[i]) |-> F(m[i][j])]]

Map2(F(_, _), m1, m2) ==
    [i \in 1..Len(m1) |-> [j \in 1..Len(m1[i]) |-> F(m1[i][j], m2[i][j])]]

SeqMin(s) ==
    CHOOSE x \in {s[i] : i \in 1..Len(s)} : \A i \in 1..Len(s) : x <= s[i]

SeqMax(s) ==
    CHOOSE x \in {s[i] : i \in 1..Len(s)} : \A i \in 1..Len(s) : x >= s[i]

(***************************************************************************)
(* fill_and_regrid and the pyinterp calls it makes.  pyinterp is a         *)
(* library: loess fills an undefined cell from the defined cells of its    *)
(* window and leaves the defined ones alone; bivariate (bilinear, with     *)
(* bounds_error=False) gives NaN at a point outside the axes.  The rasters *)
(* drawn below are constant over their defined cells, where both are       *)
(* exact (the mean of equal values is that value), or have no undefined    *)
(* cell; every target point inside the axes is a node of the source.       *)
(***************************************************************************)
LOESS_NX ==
    3

LOESS_NY ==
    3

\* pyinterp.fill.loess(grid, nx, ny) on an array indexed (lon, lat).
Loess(g) ==
    LET Near(a, b) ==
            {g[a2][b2] : <<a2, b2>> \in
                {w \in (1..Len(g)) \X (1..Len(g[1])) :
                    /\ Abs(w[1] - a) <= LOESS_NX
                    /\ Abs(w[2] - b) <= LOESS_NY
                    /\ ~IsNaN(g[w[1]][w[2]])}}
        Estimate(vals) ==
            CASE vals = {} -> NaN
              [] Cardinality(vals) = 1 -> CHOOSE v \in vals : TRUE
    IN  [a \in 1..Len(g) |-> [b \in 1..Len(g[1]) |->
            IF IsNaN(g[a][b]) THEN Estimate(Near(a, b)) ELSE g[a][b]]]

\* The indices of the axis nodes that bracket coordinate c (one, on a node).
Bracket(axis, c) ==
    LET I == 1..Len(axis)
    IN  {i \in I : \/ axis[i] <= c /\ \A k \in I : axis[k] <= c => axis[k] <= axis[i]
                   \/ axis[i] >= c /\ \A k \in I : axis[k] >= c => axis[k] >= axis[i]}

\* Grid2D(filled_ds).bivariate(coords=dict(lon=xs, lat=ys)): one value per point.
Bivariate(r, xs, ys) ==
    LET Bilinear(vals) ==
            CASE \E v \in vals : IsNaN(v) -> NaN
              [] (\A v \in vals : ~IsNaN(v)) /\ Cardinality(vals) = 1 ->
                    CHOOSE v \in vals : TRUE
        At(x, y) ==
            IF \/ x < SeqMin(r.lon) \/ x > SeqMax(r.lon)
               \/ y < SeqMin(r.lat) \/ y > SeqMax(r.lat)
            THEN NaN
            ELSE Bilinear({r.data[i][j] :
                            <<i, j>> \in Bracket(r.lat, y) \X Bracket(r.lon, x)})
    IN  [p \in 1..Len(xs) |-> At(xs[p], ys[p])]

\* The flat result reshaped straight to (lat, lon), with no transpose.
FillAndRegridReshapedOnly(in_arr, mx, my) ==
    LET grid      == Transpose(in_arr.data)
        filled    == Loess(grid)
        filled_ds == Raster(in_arr.lat, in_arr.lon, Transpose(filled))
        flat      == Bivariate(filled_ds, Ravel(mx), Ravel(my))
    IN  Reshape(flat, Shape(mx)[2], Shape(mx)[1])

\* fill_and_regrid(in_arr, mx, my), in_arr with at least one row and column.
fill_and_regrid(in_arr, mx, my) ==
    LET grid      == Transpose(in_arr.data)
        filled    == Loess(grid)
        filled_ds == Raster(in_arr.lat, in_arr.lon, Transpose(filled))
        flat      == Bivariate(filled_ds, Ravel(mx), Ravel(my))
        regridded == Reshape(flat, Shape(mx)[1], Shape(mx)[2])
    IN  Transpose(regridded)

(***************************************************************************)
(* alan_tools/config.py is not among the sources: what the code reads from *)
(* it is the record cfg, drawn in Init from Configs.  The calibrations are *)
(* chosen so that brightness above the mask threshold gives every sign of  *)
(* E_i and E_total, E_total = 0 with and without all E_i = 0 included;     *)
(* the reference year is 2019, the year the comment of                     *)
(* make_z_thresh_dataset names, or a leap year.                            *)
(***************************************************************************)
SEA_CODE ==
    255

VALUE_TO_REPLACE_NANS ==
    Q(-999, 1)

\* 0.102 uW/m2, the threshold field_descr of z_thresh_attributes documents.
THRESH_IRR_TOTAL_UW_M2 ==
    Q(51, 500)

\* The double cfg.KD_FILLVAL as it stands in an attenuation file.
KD_FILLVAL ==
    Mk("fill", 0, 1, 0, 1)

Config(mb, mg, mr, cb, cg, cr, thr, year) ==
    [M_BLUE |-> Q(mb, 1), M_GREEN |-> Q(mg, 1), M_RED |-> Q(mr, 1),
     C_BLUE |-> Q(cb, 1), C_GREEN |-> Q(cg, 1), C_RED |-> Q(cr, 1),
     FALCHI_MASK_THRESHOLD |-> Q(thr, 1),
     THRESH_IRR_TOTAL_UW_M2 |-> THRESH_IRR_TOTAL_UW_M2,
     VALUE_TO_REPLACE_NANS |-> VALUE_TO_REPLACE_NANS,
     YEAR_VALUE_TO_COERCE_DATES |-> year]

Configs ==
    {Config(1, 2, 3, 0, 0, 0, 1, 2019),
     Config(1, 1, 1, 0, 0, -6, 1, 2019),
     Config(1, 2, 3, -2, -4, -6, 1, 2020)}

(***************************************************************************)
(* class ALANTile: the methods as functions of the fields they read.       *)
(***************************************************************************)
Roi(min_lat, max_lat, min_lon, max_lon) ==
    [min_lat |-> min_lat, max_lat |-> max_lat,
     min_lon |-> min_lon, max_lon |-> max_lon]

get_landmask_data(landmask, roi) ==
    Sel(landmask, HalfDeg(roi.max_lat), HalfDeg(roi.min_lat),
        HalfDeg(roi.min_lon), HalfDeg(roi.max_lon))

\* The band axis of the rasterio array is kept out: falchi_data is band 0.
get_falchi_data(falchi, roi) ==
    Sel(falchi, HalfDeg(roi.max_lat + 1), HalfDeg(roi.min_lat - 1),
        HalfDeg(roi.min_lon - 1), HalfDeg(roi.max_lon + 1))

regrid_falchi(falchi_data, lat, lon) ==
    LET g == MeshgridIJ(lon, lat)
    IN  fill_and_regrid(falchi_data, g.mx, g.my)

\* The comparison taken strictly: a value equal to the threshold is kept.
MaskLowStrict(b, threshold) ==
    Where(~IsNaN(b) /\ ~FGt(b, threshold) /\ b # threshold, NaN, b)

\* Lines 137-139 at one cell.
mask_low(b, threshold) ==
    Where(FLe(b, threshold), NaN, b)

\* The mask left out: the regridded brightness passed on as it is.
MaskFalchiOmitted(falchi_regridded, config) ==
    falchi_regridded

mask_falchi(falchi_regridded, config) ==
    Map1(LAMBDA b : mask_low(b, config.FALCHI_MASK_THRESHOLD), falchi_regridded)

Channels ==
    <<"kd_blue", "kd_red", "kd_green">>

ChannelSet ==
    {Channels[i] : i \in 1..Len(Channels)}

\* kd is [time, lat, lon, kd_blue, kd_red, kd_green]; each channel is the
\* array at time index 0.
get_kd_data(kd, roi) ==
    LET Scrub(v) == IF v # KD_FILLVAL THEN v ELSE NaN
        Roi1(ch) == Sel(Raster(kd.lat, kd.lon, kd[ch]),
                        HalfDeg(roi.max_lat + 1), HalfDeg(roi.min_lat - 1),
                        HalfDeg(roi.min_lon - 1), HalfDeg(roi.max_lon + 1))
    IN  [time     |-> kd.time,
         lat      |-> Roi1("kd_blue").lat,
         lon      |-> Roi1("kd_blue").lon,
         kd_blue  |-> Map1(Scrub, Roi1("kd_blue").data),
         kd_red   |-> Map1(Scrub, Roi1("kd_red").data),
         kd_green |-> Map1(Scrub, Roi1("kd_green").data)]

regrid_kd(kd_data, lat, lon) ==
    LET g == MeshgridIJ(lon, lat)
    IN  [ch \in ChannelSet |->
            fill_and_regrid(Raster(kd_data.lat, kd_data.lon, kd_data[ch]),
                            g.mx, g.my)]

\* Only code 0 taken for land.
ApplyLandmaskZeroIsLand(in_arr, landmask_data) ==
    [i \in 1..Len(in_arr) |-> [j \in 1..Len(in_arr[i]) |->
        IF landmask_data.data[i][j] = 0 THEN NaN ELSE in_arr[i][j]]]

apply_landmask(in_arr, landmask_data) ==
    [i \in 1..Len(in_arr) |-> [j \in 1..Len(in_arr[i]) |->
        IF landmask_data.data[i][j] # SEA_CODE THEN NaN ELSE in_arr[i][j]]]

\* calculate_z_thresh at one cell: lines 192-196, E_i = m_i * B + c_i.
sfce_irr(m, c, b) ==
    FAdd(FMul(m, b), c)

\* The red channel left out of the sum.
SfceIrrTotalTwoChannels(config, b) ==
    FAdd(sfce_irr(config.M_BLUE, config.C_BLUE, b),
         sfce_irr(config.M_GREEN, config.C_GREEN, b))

sfce_irr_total(config, b) ==
    FAdd(FAdd(sfce_irr(config.M_BLUE, config.C_BLUE, b),
              sfce_irr(config.M_GREEN, config.C_GREEN, b)),
         sfce_irr(config.M_RED, config.C_RED, b))

\* A guard that a rewrite might add: equal weights where E_total is 0.
SpectralWeightGuarded(e_i, e_total) ==
    IF e_total = Q(0, 1) THEN Q(1, 3) ELSE FDiv(e_i, e_total)

\* Lines 198-200, R_i = E_i / E_total.
SpectralWeight(e_i, e_total) ==
    FDiv(e_i, e_total)

\* Lines 202-205, sum_i R_i * exp(-Kd_i).
Kd_log_expression(config, b, kd_blue, kd_green, kd_red) ==
    LET total == sfce_irr_total(config, b)
        R_blue == SpectralWeight(sfce_irr(config.M_BLUE, config.C_BLUE, b), total)
        R_green == SpectralWeight(sfce_irr(config.M_GREEN, config.C_GREEN, b), total)
        R_red == SpectralWeight(sfce_irr(config.M_RED, config.C_RED, b), total)
    IN  FAdd(FAdd(FMul(R_blue, FExp(FMul(Q(-1, 1), kd_blue))),
                  FMul(R_green, FExp(FMul(Q(-1, 1), kd_green)))),
             FMul(R_red, FExp(FMul(Q(-1, 1), kd_red))))

\* The clamp left out: -ln of any positive argument is kept.
KdClampOmitted(kd) ==
    kd

\* Line 213.
KdClamp(kd) ==
    Where(FGt(kd, Q(0, 1)), kd, NaN)

\* Lines 207-213.
Kd_total(expression) ==
    KdClamp(Where(FGt(expression, Q(0, 1)) /\ ~IsNaN(expression),
                  FMul(Q(-1, 1), FLog(expression)),
                  NaN))

\* Lines 215-216.
z_thresh_215(config, kd, total) ==
    FMul(FDiv(Q(-1, 1), kd),
         FLog(FDiv(config.THRESH_IRR_TOTAL_UW_M2, total)))

\* calculate_z_thresh: its local arrays and, as z_thresh, what it returns.
calculate_z_thresh(falchi_masked, kd_regridded, landmask_data, config) ==
    LET total == Map1(LAMBDA b : sfce_irr_total(config, b), falchi_masked)
        expr  == [i \in 1..Len(falchi_masked) |->
                    [j \in 1..Len(falchi_masked[i]) |->
                        Kd_log_expression(config, falchi_masked[i][j],
                                          kd_regridded["kd_blue"][i][j],
                                          kd_regridded["kd_green"][i][j],
                                          kd_regridded["kd_red"][i][j])]]
        kd    == Map1(Kd_total, expr)
        z     == Map2(LAMBDA k, e : z_thresh_215(config, k, e), kd, total)
    IN  [sfce_irr_total_uW_m2 |-> total,
         Kd_log_expression    |-> expr,
         Kd_total             |-> kd,
         z_thresh_215         |-> z,
         z_thresh             |-> apply_landmask(z, landmask_data)]

(***************************************************************************)
(* The dataset and its file.                                               *)
(***************************************************************************)
MONTHS_LIST ==
    <<"01", "02", "03", "04", "05", "06", "07", "08", "09", "10", "11", "12">>

\* int(month) on the two-digit month codes.
IntOfMonth(month) ==
    CASE month = "01" -> 1 [] month = "02" -> 2 [] month = "03" -> 3
      [] month = "04" -> 4 [] month = "05" -> 5 [] month = "06" -> 6
      [] month = "07" -> 7 [] month = "08" -> 8 [] month = "09" -> 9
      [] month = "10" -> 10 [] month = "11" -> 11 [] month = "12" -> 12

IsLeap(y) ==
    y % 4 = 0 /\ (y % 100 # 0 \/ y % 400 = 0)

\* datetime(y, m, d).toordinal()
Ordinal(y, m, d) ==
    LET before == <<0, 31, 59, 90, 120, 151, 181, 212, 243, 273, 304, 334>>
        y1 == y - 1
    IN  y1 * 365 + (y1 \div 4) - (y1 \div 100) + (y1 \div 400)
        + before[m] + (IF m > 2 /\ IsLeap(y) THEN 1 ELSE 0) + d

\* (datetime(y, m, d) - datetime(1970, 1, 1)).days
DaysSince19700101(y, m, d) ==
    Ordinal(y, m, d) - Ordinal(1970, 1, 1)

\* The first day of the reference year, whatever the month.
DaysOfYearStart(config, month) ==
    <<DaysSince19700101(config.YEAR_VALUE_TO_COERCE_DATES, 1, 1)>>

\* Lines 228-230.
days_difference_since_19700101(config, month) ==
    <<DaysSince19700101(config.YEAR_VALUE_TO_COERCE_DATES, IntOfMonth(month), 1)>>

\* file_attributes.z_thresh_attributes, the entry the encoding depends on.
z_thresh_attributes ==
    [units |-> "m", FillValue |-> Q(-999, 1)]

\* NaN cells left as they are.
FillnaOmitted(x, value) ==
    x

\* DataArray.fillna(value) at one cell.
Fillna(x, value) ==
    IF IsNaN(x) THEN value ELSE x

\* make_z_thresh_dataset: z_thresh has dims (time, lat, lon); of the global
\* attributes only the title is kept.
make_z_thresh_dataset(config, z_thresh, month, lat, lon, region_name) ==
    [time     |-> days_difference_since_19700101(config, month),
     lat      |-> lat,
     lon      |-> lon,
     z_thresh |-> <<Map1(LAMBDA x : Fillna(x, config.VALUE_TO_REPLACE_NANS),
                         z_thresh)>>,
     attrs    |-> z_thresh_attributes,
     title    |-> region_name]

\* What a reader gets from the persisted variable under CF decoding of the
\* declared _FillValue: the cells equal to it become NaN.
Decode(ds) ==
    [t \in 1..Len(ds.z_thresh) |->
        Map1(LAMBDA x : IF x = ds.attrs.FillValue THEN NaN ELSE x, ds.z_thresh[t])]

\* The file name without the month.
OutputFnameNoMonth(month, roi, region_name) ==
    "In-water_clear-sky_ALAN_Zc_"
    \o ToString(roi.min_lat) \o "S_" \o ToString(roi.max_lat) \o "N_"
    \o ToString(roi.min_lon) \o "W_" \o ToString(roi.max_lon) \o "E"
    \o (IF region_name # "" THEN "_" \o region_name ELSE "") \o ".nc"

\* make_output_fname(region_name); "" stands for None.
make_output_fname(month, roi, region_name) ==
    "In-water_clear-sky_ALAN_Zc_Month-" \o month \o "_"
    \o ToString(roi.min_lat) \o "S_" \o ToString(roi.max_lat) \o "N_"
    \o ToString(roi.min_lon) \o "W_" \o ToString(roi.max_lon) \o "E"
    \o (IF region_name # "" THEN "_" \o region_name ELSE "") \o ".nc"

\* Path(output_dir) / fname written by to_netcdf: an existing file of that
\* name is replaced.
WriteFile(fs, fname, content) ==
    [f \in DOMAIN fs \cup {fname} |-> IF f = fname THEN content ELSE fs[f]]

(***************************************************************************)
(* GetAlanTiles.py                                                         *)
(***************************************************************************)
RegionKeys ==
    <<"EuropeMed", "MidE_NInd", "NInd_FarE", "FarE_Isl", "Oceania", "PacRim",
      "NAm", "CAm", "SAm", "NAfr", "SAfr">>

REGION_LOOKUP ==
    [key \in {RegionKeys[i] : i \in 1..Len(RegionKeys)} |->
        CASE key = "EuropeMed" ->
                [name |-> "Europe Mediterranean", region |-> Roi(20, 85, -20, 55)]
          [] key = "MidE_NInd" ->
                [name |-> "Middle East and Northern Indian Ocean",
                 region |-> Roi(0, 30, 30, 60)]
          [] key = "NInd_FarE" ->
                [name |-> "Northern Indian Ocean, Far East",
                 region |-> Roi(0, 30, 60, 100)]
          [] key = "FarE_Isl" ->
                [name |-> "Far East and Islands", region |-> Roi(-10, 30, 100, 130)]
          [] key = "Oceania" ->
                [name |-> "Oceania", region |-> Roi(-50, 0, 100, 180)]
          [] key = "PacRim" ->
                [name |-> "Pacific Rim", region |-> Roi(20, 85, 100, 180)]
          [] key = "NAm" ->
                [name |-> "North America", region |-> Roi(20, 85, -180, -50)]
          [] key = "CAm" ->
                [name |-> "Central America", region |-> Roi(0, 20, -120, -60)]
          [] key = "SAm" ->
                [name |-> "South America", region |-> Roi(-60, 0, -90, -30)]
          [] key = "NAfr" ->
                [name |-> "North Africa", region |-> Roi(0, 30, -20, 20)]
          [] key = "SAfr" ->
                [name |-> "South Africa", region |-> Roi(-40, 0, 0, 70)]]

(***************************************************************************)
(* The files a tile reads.  The target grid is the landmask's nodes inside *)
(* the region: two latitudes (north first) by three longitudes.  A source  *)
(* file holds one value v on all its nodes but one, which is undefined     *)
(* (NaN in the brightness file, the fill value in the attenuation file);   *)
(* its latitude axis covers the buffered region ("full"), only its         *)
(* northern half ("partial") or only the buffer strip north of the region  *)
(* ("margin": no overlap with the target grid).  A "ramp" file covers the   *)
(* buffered region with no undefined node and values that differ from node *)
(* to node, all six target nodes holding different ones.                   *)
(***************************************************************************)
MaxB ==
    3

Brightness ==
    {NaN} \cup {Q(b, 1) : b \in 0..MaxB}

KdValues ==
    {NaN, NInf, Ln(1, 2), Q(0, 1), Ln(2, 1), Ln(4, 1)}

\* The brightness files: every value on the full axis, one on the others.
FalchiInputs ==
    {[shape |-> "full", v |-> v] : v \in Brightness}
    \cup {[shape |-> sh, v |-> Q(MaxB, 1)] : sh \in {"partial", "margin", "ramp"}}

TargetCells ==
    (1..2) \X (1..3)

LandPatterns ==
    {{}, TargetCells, {<<1, 1>>}, {<<2, 3>>}}

SourceYears ==
    {1997, 2019}

LandmaskFile(roi, land) ==
    LET n == HalfDeg(roi.max_lat)
        s == HalfDeg(roi.min_lat)
        w == HalfDeg(roi.min_lon)
        e == HalfDeg(roi.max_lon)
    IN  Raster(<<n + 2, n, s, s - 2>>,
               <<w - 2, w, roi.min_lon + roi.max_lon, e, e + 2>>,
               [i \in 1..4 |-> [j \in 1..5 |->
                    IF i \in 2..3 /\ j \in 2..4 /\ <<i - 1, j - 1>> \notin land
                    THEN SEA_CODE
                    ELSE IF i = 2 THEN 0 ELSE 254]])

SourceLat(roi, shape) ==
    LET n == HalfDeg(roi.max_lat)
        s == HalfDeg(roi.min_lat)
    IN  CASE shape = "full" -> <<n + 4, n + 2, n, s, s - 2>>
          [] shape = "partial" -> <<n + 4, n + 2, n>>
          [] shape = "margin" -> <<n + 4, n + 2, n + 1>>
          [] shape = "ramp" -> <<n + 4, n + 2, n, s, s - 2>>

SourceLon(roi) ==
    <<HalfDeg(roi.min_lon) - 2, HalfDeg(roi.min_lon), roi.min_lon + roi.max_lon,
      HalfDeg(roi.max_lon), HalfDeg(roi.max_lon) + 2>>

SourceData(roi, shape, v, hole) ==
    [i \in 1..Len(SourceLat(roi, shape)) |-> [j \in 1..Len(SourceLon(roi)) |->
        IF i = 3 /\ j = 3 THEN hole ELSE v]]

\* Six brightness values up to v, and six attenuation values.
BrightnessRamp(v) ==
    [p \in 1..6 |-> Q(p * v.n, 6 * v.d)]

KdRamp ==
    <<Ln(1, 2), Q(0, 1), Ln(2, 1), Ln(4, 1), Ln(3, 1), Ln(3, 2)>>

\* vals laid over the nodes of a full source file, shifted by k.
RampData(roi, vals, k) ==
    [i \in 1..Len(SourceLat(roi, "ramp")) |-> [j \in 1..Len(SourceLon(roi)) |->
        vals[((3 * i + j + k) % Len(vals)) + 1]]]

FalchiFile(roi, shape, v) ==
    Raster(SourceLat(roi, shape), SourceLon(roi),
           IF shape = "ramp"
           THEN RampData(roi, BrightnessRamp(v), 0)
           ELSE SourceData(roi, shape, v, NaN))

KdFile(roi, blue, red, green, year) ==
    [time     |-> DaysSince19700101(year, 1, 1),
     lat      |-> SourceLat(roi, "full"),
     lon      |-> SourceLon(roi),
     kd_blue  |-> SourceData(roi, "full", blue, KD_FILLVAL),
     kd_red   |-> SourceData(roi, "full", red, KD_FILLVAL),
     kd_green |-> SourceData(roi, "full", green, KD_FILLVAL)]

KdFileRamp(roi, year) ==
    [time     |-> DaysSince19700101(year, 1, 1),
     lat      |-> SourceLat(roi, "ramp"),
     lon      |-> SourceLon(roi),
     kd_blue  |-> RampData(roi, KdRamp, 0),
     kd_red   |-> RampData(roi, KdRamp, 1),
     kd_green |-> RampData(roi, KdRamp, 2)]

\* The attenuation files a tile of region roi may find.
KdFiles(roi) ==
    {KdFile(roi, blue, red, green, year) :
        blue \in KdValues, red \in KdValues, green \in KdValues,
        year \in SourceYears}
    \cup {KdFileRamp(roi, year) : year \in SourceYears}

(***************************************************************************)
(* State.                                                                  *)
(***************************************************************************)
VARIABLES
    cfg,        \* what alan_tools.config holds
    alan_tile,  \* the ALANTile object: its fields
    pc,         \* the stage the tile has completed
    calc,       \* the local arrays of calculate_z_thresh
    dataset,    \* z_thresh_ds, as make_z_thresh_dataset returns it
    decoded,    \* z_thresh as read back from the persisted variable
    exception,  \* the exception that ended the tile or the run, "" for none
    files,      \* output_dir: file name -> dataset
    args,       \* the driver's args.regions and args.months
    env,        \* the months whose Kd file is missing; output_dir writable
    ri,         \* position of the loop over args.regions
    mi,         \* position of the loop over args.months
    dpc,        \* the driver: "loop", "done" or "aborted"
    invoked,    \* the (region, month) pairs ALANTile was called for, in order
    written     \* the file names given to to_netcdf, in order

vars ==
    <<cfg, alan_tile, pc, calc, dataset, decoded, exception, files,
      args, env, ri, mi, dpc, invoked, written>>

tileVars ==
    <<cfg, alan_tile, pc, calc, dataset, decoded>>

driverVars ==
    <<args, env, ri, mi, dpc, invoked, written>>

NoRaster ==
    Raster(<<>>, <<>>, <<>>)

NoCalc ==
    [sfce_irr_total_uW_m2 |-> <<>>, Kd_log_expression |-> <<>>,
     Kd_total |-> <<>>, z_thresh_215 |-> <<>>, z_thresh |-> <<>>]

NoDataset ==
    [time |-> <<>>, lat |-> <<>>, lon |-> <<>>, z_thresh |-> <<>>,
     attrs |-> z_thresh_attributes, title |-> ""]

NoKd ==
    [time |-> 0, lat |-> <<>>, lon |-> <<>>,
     kd_blue |-> <<>>, kd_red |-> <<>>, kd_green |-> <<>>]

\* ALANTile.__init__, lines 73-80: the fields before any data is read.
NewTile(region_name, roi, month) ==
    [region_name      |-> region_name,
     roi              |-> roi,
     month            |-> month,
     landmask_data    |-> NoRaster,
     lat              |-> <<>>,
     lon              |-> <<>>,
     falchi_data      |-> NoRaster,
     falchi_regridded |-> <<>>,
     falchi_masked    |-> <<>>,
     kd_data          |-> NoKd,
     kd_regridded     |-> [ch \in ChannelSet |-> <<>>],
     z_thresh         |-> <<>>]

(***************************************************************************)
(* Spec: one ALANTile.  __init__ runs its stages in order (lines 83-95);   *)
(* a loader whose file cannot be opened raises and ends the tile.          *)
(***************************************************************************)
TileUnits ==
    {[key |-> "NAfr", month |-> "02"]}

NoDriver ==
    /\ args = [regions |-> <<>>, months |-> <<>>]
    /\ env = [kd_missing |-> {}, output_dir_ok |-> TRUE]
    /\ ri = 1
    /\ mi = 1
    /\ dpc = "tile"
    /\ invoked = <<>>
    /\ written = <<>>

Init ==
    /\ cfg \in Configs
    /\ \E u \in TileUnits :
          alan_tile = NewTile(REGION_LOOKUP[u.key].name,
                              REGION_LOOKUP[u.key].region, u.month)
    /\ pc = "new"
    /\ calc = NoCalc
    /\ dataset = NoDataset
    /\ decoded = <<>>
    /\ exception = ""
    /\ files = <<>>
    /\ NoDriver

Raise(name) ==
    /\ exception' = name
    /\ pc' = "raised"
    /\ UNCHANGED <<cfg, alan_tile, calc, dataset, decoded, files>>
    /\ UNCHANGED driverVars

\* Lines 83-85.
GetLandmaskData ==
    /\ pc = "new"
    /\ \/ Raise("FileNotFoundError")
       \/ \E land \in LandPatterns :
            LET data == get_landmask_data(LandmaskFile(alan_tile.roi, land),
                                          alan_tile.roi)
            IN  /\ alan_tile' = [alan_tile EXCEPT !.landmask_data = data,
                                                  !.lat = data.lat,
                                                  !.lon = data.lon]
                /\ pc' = "landmask"
                /\ UNCHANGED <<cfg, calc, dataset, decoded, exception, files>>
                /\ UNCHANGED driverVars

\* Line 87.
GetFalchiData ==
    /\ pc = "landmask"
    /\ \/ Raise("FileNotFoundError")
       \/ \E in \in FalchiInputs :
            /\ alan_tile' = [alan_tile EXCEPT !.falchi_data =
                    get_falchi_data(FalchiFile(alan_tile.roi, in.shape, in.v),
                                    alan_tile.roi)]
            /\ pc' = "falchi"
            /\ UNCHANGED <<cfg, calc, dataset, decoded, exception, files>>
            /\ UNCHANGED driverVars

\* Line 88.
RegridFalchi ==
    /\ pc = "falchi"
    /\ alan_tile' = [alan_tile EXCEPT !.falchi_regridded =
            regrid_falchi(alan_tile.falchi_data, alan_tile.lat, alan_tile.lon)]
    /\ pc' = "falchi_regridded"
    /\ UNCHANGED <<cfg, calc, dataset, decoded, exception, files>>
    /\ UNCHANGED driverVars

\* Line 89.
MaskFalchi ==
    /\ pc = "falchi_regridded"
    /\ alan_tile' = [alan_tile EXCEPT !.falchi_masked =
            mask_falchi(alan_tile.falchi_regridded, cfg)]
    /\ pc' = "falchi_masked"
    /\ UNCHANGED <<cfg, calc, dataset, decoded, exception, files>>
    /\ UNCHANGED driverVars

\* Line 91.
GetKdData ==
    /\ pc = "falchi_masked"
    /\ \/ Raise("FileNotFoundError")
       \/ \E kd \in KdFiles(alan_tile.roi) :
            /\ alan_tile' = [alan_tile EXCEPT !.kd_data =
                    get_kd_data(kd, alan_tile.roi)]
            /\ pc' = "kd"
            /\ UNCHANGED <<cfg, calc, dataset, decoded, exception, files>>
            /\ UNCHANGED driverVars

\* Line 92.
RegridKd ==
    /\ pc = "kd"
    /\ alan_tile' = [alan_tile EXCEPT !.kd_regridded =
            regrid_kd(alan_tile.kd_data, alan_tile.lat, alan_tile.lon)]
    /\ pc' = "kd_regridded"
    /\ UNCHANGED <<cfg, calc, dataset, decoded, exception, files>>
    /\ UNCHANGED driverVars

\* Line 95.
CalculateZThresh ==
    /\ pc = "kd_regridded"
    /\ calc' = calculate_z_thresh(alan_tile.falchi_masked, alan_tile.kd_regridded,
                                  alan_tile.landmask_data, cfg)
    /\ alan_tile' = [alan_tile EXCEPT !.z_thresh = calc'.z_thresh]
    /\ pc' = "constructed"
    /\ UNCHANGED <<cfg, dataset, decoded, exception, files>>
    /\ UNCHANGED driverVars

\* save_z_thresh_to_nc(output_dir, region_name=key), as the driver calls it.
SaveZThreshToNc ==
    /\ pc = "constructed"
    /\ \E key \in DOMAIN REGION_LOOKUP :
          /\ REGION_LOOKUP[key].name = alan_tile.region_name
          /\ dataset' = make_z_thresh_dataset(cfg, alan_tile.z_thresh,
                                              alan_tile.month,
                                              alan_tile.lat, alan_tile.lon,
                                              alan_tile.region_name)
          /\ files' = WriteFile(files,
                                make_output_fname(alan_tile.month, alan_tile.roi, key),
                                dataset')
    /\ pc' = "saved"
    /\ UNCHANGED <<cfg, alan_tile, calc, decoded, exception>>
    /\ UNCHANGED driverVars

Next ==
    \/ GetLandmaskData
    \/ GetFalchiData
    \/ RegridFalchi
    \/ MaskFalchi
    \/ GetKdData
    \/ RegridKd
    \/ CalculateZThresh
    \/ SaveZThreshToNc

Spec ==
    Init /\ [][Next]_vars

(***************************************************************************)
(* AssemblerSpec: make_z_thresh_dataset and to_netcdf on a tile whose      *)
(* z_thresh is any grid of doubles, for every month and for source files   *)
(* of either year; then a reader decodes the persisted variable.           *)
(***************************************************************************)
ZValues ==
    {NaN, PInf, Q(-999, 1), Q(0, 1), Q(-1, 2), Mk("logr", 1, 2, 17, 3000)}

AssemblerInit ==
    /\ cfg \in Configs
    /\ \E month \in {MONTHS_LIST[i] : i \in 1..Len(MONTHS_LIST)},
          year \in SourceYears, z1 \in ZValues, z2 \in ZValues :
          LET roi == REGION_LOOKUP["NAfr"].region
              new == NewTile(REGION_LOOKUP["NAfr"].name, roi, month)
          IN  alan_tile = [new EXCEPT
                            !.lat = <<HalfDeg(roi.max_lat)>>,
                            !.lon = <<HalfDeg(roi.min_lon), HalfDeg(roi.max_lon)>>,
                            !.kd_data = [NoKd EXCEPT
                                            !.time = DaysSince19700101(year, 1, 1)],
                            !.z_thresh = <<(<<z1, z2>>)>>]
    /\ pc = "constructed"
    /\ calc = NoCalc
    /\ dataset = NoDataset
    /\ decoded = <<>>
    /\ exception = ""
    /\ files = <<>>
    /\ NoDriver

\* xarray.open_dataset on the file written, with its default CF decoding.
ReadBack ==
    /\ pc = "saved"
    /\ \E f \in DOMAIN files : decoded' = Decode(files[f])
    /\ pc' = "read"
    /\ UNCHANGED <<cfg, alan_tile, calc, dataset, exception, files>>
    /\ UNCHANGED driverVars

AssemblerNext ==
    \/ SaveZThreshToNc
    \/ ReadBack

AssemblerSpec ==
    AssemblerInit /\ [][AssemblerNext]_vars

(***************************************************************************)
(* DriverSpec: GetAlanTiles.py, lines 77-89.  args.regions and args.months *)
(* are selections without repetition, in any order, of known region keys   *)
(* and month codes.  The body of the loop has no try/except: an exception  *)
(* out of ALANTile(...) or save_z_thresh_to_nc ends the script.            *)
(***************************************************************************)
MaxRegions ==
    2

MaxMonths ==
    2

\* The sequences without repetition of 1..maxlen elements of S.
Selections(S, maxlen) ==
    {q \in UNION {[1..n -> S] : n \in 1..maxlen} :
        \A i, j \in 1..Len(q) : i # j => q[i] # q[j]}

\* ALANTile(region_name, roi, month, ...): the constructor run to its end on
\* readable files.
ALANTile(config, region_name, roi, month, landmask, falchi, kd) ==
    LET landmask_data    == get_landmask_data(landmask, roi)
        falchi_data      == get_falchi_data(falchi, roi)
        falchi_regridded == regrid_falchi(falchi_data, landmask_data.lat,
                                          landmask_data.lon)
        falchi_masked    == mask_falchi(falchi_regridded, config)
        kd_data          == get_kd_data(kd, roi)
        kd_regridded     == regrid_kd(kd_data, landmask_data.lat, landmask_data.lon)
    IN  [region_name      |-> region_name,
         roi              |-> roi,
         month            |-> month,
         landmask_data    |-> landmask_data,
         lat              |-> landmask_data.lat,
         lon              |-> landmask_data.lon,
         falchi_data      |-> falchi_data,
         falchi_regridded |-> falchi_regridded,
         falchi_masked    |-> falchi_masked,
         kd_data          |-> kd_data,
         kd_regridded     |-> kd_regridded,
         z_thresh         |-> calculate_z_thresh(falchi_masked, kd_regridded,
                                                 landmask_data, config).z_thresh]

DriverInit ==
    /\ cfg = Config(1, 2, 3, 0, 0, 0, 1, 2019)
    /\ \E regions \in Selections({RegionKeys[i] : i \in 1..MaxRegions}, MaxRegions),
          months \in Selections({MONTHS_LIST[i] : i \in 1..MaxMonths}, MaxMonths) :
          args = [regions |-> regions, months |-> months]
    /\ \E missing \in SUBSET {MONTHS_LIST[i] : i \in 1..MaxMonths},
          ok \in BOOLEAN :
          env = [kd_missing |-> missing, output_dir_ok |-> ok]
    /\ ri = 1
    /\ mi = 1
    /\ dpc = "loop"
    /\ invoked = <<>>
    /\ written = <<>>
    /\ exception = ""
    /\ files = <<>>
    /\ alan_tile = NewTile("", Roi(0, 0, 0, 0), "")
    /\ pc = "new"
    /\ calc = NoCalc
    /\ dataset = NoDataset
    /\ decoded = <<>>

\* The loops' step to the next (region, month), or out of both.
Advance ==
    IF mi < Len(args.months)
    THEN /\ mi' = mi + 1
         /\ ri' = ri
         /\ dpc' = "loop"
    ELSE /\ mi' = 1
         /\ ri' = IF ri < Len(args.regions) THEN ri + 1 ELSE ri
         /\ dpc' = IF ri < Len(args.regions) THEN "loop" ELSE "done"

Abort(name) ==
    /\ exception' = name
    /\ dpc' = "aborted"
    /\ UNCHANGED <<ri, mi>>

\* One pass of the inner loop's body, lines 82-89.
ProcessUnit ==
    /\ dpc = "loop"
    /\ LET region_name == args.regions[ri]
           roi         == REGION_LOOKUP[region_name].region
           month       == args.months[mi]
           tile        == ALANTile(cfg, REGION_LOOKUP[region_name].name, roi, month,
                                   LandmaskFile(roi, {<<1, 1>>}),
                                   FalchiFile(roi, "full", Q(MaxB, 1)),
                                   KdFile(roi, Ln(2, 1), Ln(2, 1), Ln(4, 1), 1997))
           fname       == make_output_fname(month, roi, region_name)
       IN  /\ invoked' = Append(invoked, <<region_name, month>>)
           /\ \/ /\ month \in env.kd_missing
                 /\ Abort("FileNotFoundError")
                 /\ UNCHANGED <<alan_tile, dataset, files, written>>
              \/ /\ month \notin env.kd_missing
                 /\ alan_tile' = tile
                 /\ dataset' = IF env.output_dir_ok
                               THEN make_z_thresh_dataset(cfg, tile.z_thresh, month,
                                        tile.lat, tile.lon, tile.region_name)
                               ELSE dataset
                 /\ written' = Append(written, fname)
                 /\ \/ /\ ~env.output_dir_ok
                       /\ Abort("PermissionError")
                       /\ UNCHANGED files
                    \/ /\ env.output_dir_ok
                       /\ files' = WriteFile(files, fname, dataset')
                       /\ exception' = exception
                       /\ Advance
    /\ UNCHANGED <<cfg, pc, calc, decoded, args, env>>

DriverNext ==
    ProcessUnit

DriverSpec ==
    DriverInit /\ [][DriverNext]_vars

(***************************************************************************)
(* Properties.                                                             *)
(***************************************************************************)
Calculated ==
    pc \in {"constructed", "saved", "read"} /\ calc # NoCalc

Masked ==
    pc \in {"falchi_masked", "kd", "kd_regridded", "constructed", "saved"}

At(grid, c) ==
    grid[c[1]][c[2]]

KdAt(ch, c) ==
    alan_tile.kd_regridded[ch][c[1]][c[2]]

IsSea(c) ==
    alan_tile.landmask_data.data[c[1]][c[2]] = SEA_CODE

PositiveLn(x) ==
    x.k = "ln" /\ x.n > x.d

\* C1: once calculate_z_thresh has run, at every cell whose summed irradiance
\* E_total is 0 the weighted sum, K_eff and the depth are NaN, before and
\* after the land mask, and no exception has been raised.
C1_ZeroTotalIsNaN ==
    Calculated =>
        \A c \in TargetCells :
            At(calc.sfce_irr_total_uW_m2, c) = Q(0, 1) =>
                /\ IsNaN(At(calc.Kd_log_expression, c))
                /\ IsNaN(At(calc.Kd_total, c))
                /\ IsNaN(At(calc.z_thresh_215, c))
                /\ IsNaN(At(alan_tile.z_thresh, c))
                /\ exception = ""

\* A sea cell with E_total = 0 from non-zero channel irradiances (so that the
\* weights are infinite, not NaN) over positive attenuation in all channels.
C1_Witness ==
    /\ Calculated
    /\ cfg.C_RED = Q(-6, 1)
    /\ \E c \in TargetCells :
          /\ IsSea(c)
          /\ At(alan_tile.falchi_masked, c) = Q(2, 1)
          /\ At(calc.sfce_irr_total_uW_m2, c) = Q(0, 1)
          /\ \A ch \in ChannelSet : PositiveLn(KdAt(ch, c))
          /\ IsNaN(At(calc.z_thresh_215, c))

\* C2: the divisor K_eff is NaN or strictly positive at every cell; it is NaN
\* where the argument of the logarithm is <= 0, NaN or infinite and where
\* -ln of it is not positive (argument >= 1); where K_eff is NaN so is Z.
C2_KeffNaNOrPositive ==
    Calculated =>
        \A c \in TargetCells :
            LET e == At(calc.Kd_log_expression, c)
                k == At(calc.Kd_total, c)
            IN  /\ IsNaN(k) \/ PositiveLn(k)
                /\ (IsNaN(e) \/ e.k = "inf" \/ (e.k = "q" /\ e.n <= 0)) => IsNaN(k)
                /\ (e.k = "q" /\ e.n >= e.d) => IsNaN(k)
                /\ (e.k = "q" /\ e.n > 0 /\ e.n < e.d) => k = Ln(e.d, e.n)
                /\ IsNaN(k) => IsNaN(At(calc.z_thresh_215, c))

\* A finite argument above 1, whose -ln is negative and is clamped to NaN.
C2_Witness ==
    /\ Calculated
    /\ \E c \in TargetCells :
          LET e == At(calc.Kd_log_expression, c)
          IN  /\ e.k = "q" /\ e.n > e.d
              /\ ~IsNaN(At(calc.sfce_irr_total_uW_m2, c))
              /\ IsNaN(At(calc.Kd_total, c))
              /\ IsNaN(At(calc.z_thresh_215, c))

\* C3: in the grid calculate_z_thresh returns, a cell whose landmask code is
\* not 255 is NaN, a cell whose code is 255 holds what line 215 computed, and
\* apply_landmask applied again changes nothing.
C3_LandmaskOverrides ==
    Calculated =>
        /\ \A c \in TargetCells :
              /\ ~IsSea(c) => IsNaN(At(alan_tile.z_thresh, c))
              /\ IsSea(c) => At(alan_tile.z_thresh, c) = At(calc.z_thresh_215, c)
        /\ apply_landmask(alan_tile.z_thresh, alan_tile.landmask_data)
             = alan_tile.z_thresh

\* A land cell of non-zero code over a computed depth, beside a sea cell that
\* keeps its depth.
C3_Witness ==
    /\ Calculated
    /\ \E c \in TargetCells, d \in TargetCells :
          /\ ~IsSea(c)
          /\ alan_tile.landmask_data.data[c[1]][c[2]] # 0
          /\ ~IsNaN(At(calc.z_thresh_215, c))
          /\ IsNaN(At(alan_tile.z_thresh, c))
          /\ IsSea(d)
          /\ ~IsNaN(At(alan_tile.z_thresh, d))

\* C4: mask_falchi is elementwise: a finite brightness above the threshold is
\* kept, one equal to or below it becomes NaN, NaN stays NaN, and nothing is
\* raised.
C4_MaskLow ==
    Masked =>
        /\ exception = ""
        /\ Shape(alan_tile.falchi_masked) = Shape(alan_tile.falchi_regridded)
        /\ \A c \in TargetCells :
              LET b == At(alan_tile.falchi_regridded, c)
                  t == cfg.FALCHI_MASK_THRESHOLD
                  m == At(alan_tile.falchi_masked, c)
              IN  /\ (b.k = "q" /\ b.n * t.d > t.n * b.d) => m = b
                  /\ (b.k = "q" /\ b.n * t.d <= t.n * b.d) => IsNaN(m)
                  /\ IsNaN(b) => IsNaN(m)

\* A brightness exactly equal to the threshold, masked.
C4_Witness ==
    /\ pc = "falchi_masked"
    /\ \E c \in TargetCells :
          /\ At(alan_tile.falchi_regridded, c) = cfg.FALCHI_MASK_THRESHOLD
          /\ IsNaN(At(alan_tile.falchi_masked, c))

\* The regions x months product of the driver's arguments.
Units ==
    {<<args.regions[i], args.months[j]>> :
        i \in 1..Len(args.regions), j \in 1..Len(args.months)}

InvokedSet ==
    {invoked[i] : i \in 1..Len(invoked)}

\* C5: when the batch run has ended, with or without a failure in one unit,
\* every unit of the regions x months product has been processed.
C5_FailureIsolated ==
    dpc \in {"done", "aborted"} => InvokedSet = Units

\* No node of the source raster lies within the span of the target vectors.
ZeroOverlap(src, lat, lon) ==
    /\ Len(src.lat) > 0
    /\ Len(lat) > 0
    /\ \A i \in 1..Len(src.lat) :
          src.lat[i] > SeqMax(lat) \/ src.lat[i] < SeqMin(lat)

\* C6: once regrid_falchi has been reached with a brightness raster that has
\* no overlap with the target grid, the tile has ended with RegridFailure:
\* it holds no regridded grid and goes no further.
C6_ZeroOverlapRaises ==
    (/\ pc \notin {"new", "landmask", "falchi"}
     /\ ZeroOverlap(alan_tile.falchi_data, alan_tile.lat, alan_tile.lon))
        => /\ pc = "raised"
           /\ exception = "RegridFailure"

\* C7: a run that ends without failure has invoked the pipeline once for each
\* pair of the product, in the loops' order, and has written one file per
\* pair: as many distinct files as pairs, none written twice, each holding
\* the dataset of its own pair.
C7_OneFilePerPair ==
    dpc = "done" =>
        /\ Len(invoked) = Len(args.regions) * Len(args.months)
        /\ InvokedSet = Units
        /\ \A i \in 1..Len(args.regions), j \in 1..Len(args.months) :
              invoked[(i - 1) * Len(args.months) + j]
                = <<args.regions[i], args.months[j]>>
        /\ Len(written) = Len(invoked)
        /\ \A a, b \in 1..Len(written) : a # b => written[a] # written[b]
        /\ DOMAIN files = {written[a] : a \in 1..Len(written)}
        /\ Cardinality(DOMAIN files) = Len(args.regions) * Len(args.months)
        /\ \A a \in 1..Len(invoked) :
              /\ files[written[a]].title = REGION_LOOKUP[invoked[a][1]].name
              /\ files[written[a]].time
                   = <<DaysSince19700101(cfg.YEAR_VALUE_TO_COERCE_DATES,
                                         IntOfMonth(invoked[a][2]), 1)>>

\* A finished run over two regions and two months.
C7_Witness ==
    /\ dpc = "done"
    /\ Len(args.regions) = 2
    /\ Len(args.months) = 2
    /\ Cardinality(DOMAIN files) = 4

\* C8: at a cell whose three attenuation values are the same positive k and
\* whose E_total is finite and not 0, K_eff is k and the depth is
\* (-1/k) * ln(T / E_total).
C8_DegenerateChannel ==
    Calculated =>
        \A c \in TargetCells :
            LET k == KdAt("kd_blue", c)
                e == At(calc.sfce_irr_total_uW_m2, c)
            IN  (/\ PositiveLn(k)
                 /\ KdAt("kd_green", c) = k
                 /\ KdAt("kd_red", c) = k
                 /\ e.k = "q" /\ e.n # 0)
                    => /\ At(calc.Kd_total, c) = k
                       /\ At(calc.z_thresh_215, c)
                            = FMul(FDiv(Q(-1, 1), k),
                                   FLog(FDiv(cfg.THRESH_IRR_TOTAL_UW_M2, e)))

\* Equal attenuation ln 4 under unequal channel weights, with a finite depth.
C8_Witness ==
    /\ Calculated
    /\ cfg.M_GREEN # cfg.M_BLUE
    /\ \E c \in TargetCells :
          /\ \A ch \in ChannelSet : KdAt(ch, c) = Ln(4, 1)
          /\ At(calc.sfce_irr_total_uW_m2, c).k = "q"
          /\ At(calc.sfce_irr_total_uW_m2, c).n > 0
          /\ At(calc.Kd_total, c) = Ln(4, 1)
          /\ IsFinite(At(calc.z_thresh_215, c))

\* The cells of the grid AssemblerSpec assembles: one latitude, two longitudes.
AssembledCells ==
    {<<1, 1>>, <<1, 2>>}

FILL_SENTINEL ==
    Q(-999, 1)

\* C9 as stated: the variable read back is NaN at exactly the cells that were
\* NaN in the computed grid.
C9_ReadBackNaNExactly ==
    pc = "read" =>
        \A c \in AssembledCells :
            IsNaN(At(decoded[1], c)) <=> IsNaN(At(alan_tile.z_thresh, c))

\* C9 amended: in the dataset a NaN cell holds -999.0, the declared
\* _FillValue, and any other cell its computed value, so no NaN is persisted;
\* read back, a cell is NaN exactly if it was NaN or its computed value was
\* -999.0, and every other cell has its computed value.
C9_FillRoundTrip ==
    /\ pc \in {"saved", "read"} =>
          /\ dataset.attrs.FillValue = FILL_SENTINEL
          /\ Len(dataset.z_thresh) = 1
          /\ \A c \in AssembledCells :
                LET z == At(alan_tile.z_thresh, c)
                    p == At(dataset.z_thresh[1], c)
                IN  /\ IsNaN(z) => p = FILL_SENTINEL
                    /\ ~IsNaN(z) => p = z
                    /\ ~IsNaN(p)
          /\ \E f \in DOMAIN files : files[f] = dataset
    /\ pc = "read" =>
          \A c \in AssembledCells :
              LET z == At(alan_tile.z_thresh, c)
                  r == At(decoded[1], c)
              IN  /\ IsNaN(r) <=> (IsNaN(z) \/ z = FILL_SENTINEL)
                  /\ ~IsNaN(r) => r = z

\* A grid with a NaN cell beside a computed -999.0, written and read back.
C9_Witness ==
    /\ pc = "read"
    /\ IsNaN(alan_tile.z_thresh[1][1])
    /\ alan_tile.z_thresh[1][2] = FILL_SENTINEL
    /\ dataset.z_thresh[1][1][1] = FILL_SENTINEL
    /\ IsNaN(decoded[1][1][1])
    /\ IsNaN(decoded[1][1][2])

\* C10 as stated: the one timestamp is the first day of the reference year.
C10_TimeIsYearStart ==
    pc \in {"saved", "read"} =>
        dataset.time = <<DaysSince19700101(cfg.YEAR_VALUE_TO_COERCE_DATES, 1, 1)>>

MonthLengths(y) ==
    <<31, IF IsLeap(y) THEN 29 ELSE 28, 31, 30, 31, 30, 31, 31, 30, 31, 30, 31>>

RECURSIVE DaysBeforeMonth(_, _)
DaysBeforeMonth(y, m) ==
    IF m = 1 THEN 0 ELSE DaysBeforeMonth(y, m - 1) + MonthLengths(y)[m - 1]

\* C10 amended: the dataset carries exactly one timestamp, the first day of
\* the tile's month in the reference year (1 January of that year plus the
\* lengths of the months before), whatever the year of the source data.
C10_TimeIsMonthStart ==
    pc \in {"saved", "read"} =>
        LET y == cfg.YEAR_VALUE_TO_COERCE_DATES
            m == IntOfMonth(alan_tile.month)
        IN  /\ Len(dataset.time) = 1
            /\ dataset.time[1]
                 = DaysSince19700101(y, 1, 1) + DaysBeforeMonth(y, m)
            /\ dataset.time[1] >= DaysSince19700101(y, 1, 1)
            /\ dataset.time[1] < DaysSince19700101(y + 1, 1, 1)
            /\ \A f \in DOMAIN files : files[f].time = dataset.time

\* March of a leap reference year, from source data of 1997.
C10_Witness ==
    /\ pc = "saved"
    /\ alan_tile.month = "03"
    /\ cfg.YEAR_VALUE_TO_COERCE_DATES = 2020
    /\ alan_tile.kd_data.time = DaysSince19700101(1997, 1, 1)
    /\ dataset.time = <<18322>>

\* The value a source raster gives at the point (y, x), a node of it or a
\* point outside its axes: the node's value, for an undefined node the one
\* value its defined nodes hold (NaN if it has none), and NaN outside.
InterpolatedAt(src, y, x) ==
    IF \/ y > SeqMax(src.lat) \/ y < SeqMin(src.lat)
       \/ x > SeqMax(src.lon) \/ x < SeqMin(src.lon)
    THEN NaN
    ELSE LET i == CHOOSE a \in 1..Len(src.lat) : src.lat[a] = y
             j == CHOOSE b \in 1..Len(src.lon) : src.lon[b] = x
             defined == {src.data[a][b] :
                            <<a, b>> \in {w \in (1..Len(src.lat)) \X (1..Len(src.lon)) :
                                            ~IsNaN(src.data[w[1]][w[2]])}}
         IN  IF ~IsNaN(src.data[i][j])
             THEN src.data[i][j]
             ELSE IF defined = {} THEN NaN ELSE CHOOSE v \in defined : TRUE

\* A grid of the target's shape whose element [i][j] is the source's value
\* at (lat[i], lon[j]).
OnTargetGrid(grid, src) ==
    /\ Shape(grid) = <<Len(alan_tile.lat), Len(alan_tile.lon)>>
    /\ Shape(grid) = Shape(alan_tile.landmask_data.data)
    /\ \A i \in 1..Len(alan_tile.lat), j \in 1..Len(alan_tile.lon) :
          grid[i][j] = InterpolatedAt(src, alan_tile.lat[i], alan_tile.lon[j])

\* C11: what regrid_falchi and regrid_kd return has the shape (n, m) of the
\* landmask target grid, and its element [i][j] is the value interpolated at
\* (lat[i], lon[j]): the transposes in fill_and_regrid leave no reordering
\* of axes or cells.
C11_NoNetReordering ==
    /\ alan_tile.falchi_regridded # <<>> =>
          OnTargetGrid(alan_tile.falchi_regridded, alan_tile.falchi_data)
    /\ \A ch \in ChannelSet :
          alan_tile.kd_regridded[ch] # <<>> =>
              OnTargetGrid(alan_tile.kd_regridded[ch],
                           Raster(alan_tile.kd_data.lat, alan_tile.kd_data.lon,
                                  alan_tile.kd_data[ch]))

\* Both regridders run on rasters whose six target nodes hold six different
\* values, on a grid of two latitudes by three longitudes.
C11_Witness ==
    /\ pc = "kd_regridded"
    /\ Shape(alan_tile.falchi_regridded) = <<2, 3>>
    /\ Shape(alan_tile.kd_regridded["kd_red"]) = <<2, 3>>
    /\ \A c \in TargetCells, d \in TargetCells :
          c # d => /\ At(alan_tile.falchi_regridded, c)
                        # At(alan_tile.falchi_regridded, d)
                   /\ KdAt("kd_red", c) # KdAt("kd_red", d)
    /\ \A c \in TargetCells : ~IsNaN(At(alan_tile.falchi_regridded, c))

\* The cell has light: its regridded brightness is above the mask threshold.
HasLight(c) ==
    FGt(At(alan_tile.falchi_regridded, c), cfg.FALCHI_MASK_THRESHOLD)

\* C12: a cell of the final grid is not NaN only if it is a sea cell, its
\* regridded brightness is strictly above the mask threshold, its E_total is
\* a number other than 0 and its K_eff is strictly positive; a cell whose
\* brightness is NaN or not above the threshold, and a cell with a NaN
\* attenuation channel, is NaN.
C12_NonNaNOnlyIf ==
    Calculated =>
        \A c \in TargetCells :
            LET z == At(alan_tile.z_thresh, c)
                e == At(calc.sfce_irr_total_uW_m2, c)
            IN  /\ ~IsNaN(z) =>
                      /\ IsSea(c)
                      /\ HasLight(c)
                      /\ ~IsNaN(e) /\ e # Q(0, 1)
                      /\ FGt(At(calc.Kd_total, c), Q(0, 1))
                /\ ~HasLight(c) => IsNaN(z)
                /\ (\E ch \in ChannelSet : IsNaN(KdAt(ch, c))) => IsNaN(z)

\* One grid with a sea cell that has a depth, a sea cell at the threshold
\* and a sea cell below it, both without one.
C12_Witness ==
    /\ Calculated
    /\ \E c \in TargetCells, d \in TargetCells, e \in TargetCells :
          /\ IsSea(c) /\ IsSea(d) /\ IsSea(e)
          /\ IsFinite(At(alan_tile.z_thresh, c))
          /\ At(alan_tile.falchi_regridded, d) = cfg.FALCHI_MASK_THRESHOLD
          /\ IsNaN(At(alan_tile.z_thresh, d))
          /\ At(alan_tile.falchi_regridded, e).k = "q"
          /\ ~FGt(At(alan_tile.falchi_regridded, e), cfg.FALCHI_MASK_THRESHOLD)
          /\ e # d
          /\ \A ch \in ChannelSet : PositiveLn(KdAt(ch, e))
          /\ IsNaN(At(alan_tile.z_thresh, e))

=============================================================================
